---- MODULE Spec2Model ----
(***************************************************************************)
(* Emotional Journal: the entry store (utils/data_manager.py), the         *)
(* statistics it derives (get_stats, _calculate_streaks,                   *)
(* visualizations.get_summary_stats, create_day_of_week_chart) and the     *)
(* entry-submission workflow of                                            *)
(* app.py, as a state machine over the journal_entries table; and the      *)
(* Analyzer (utils/sentiment_analyzer_lite.py, utils/sentiment_analyzer.py) *)
(* as a function of the text and of what TextBlob and the transformers     *)
(* pipelines do when they are called.                                      *)
(*                                                                         *)
(* Time is counted in slots; a calendar day has SlotsPerDay slots.  A      *)
(* Python str is a sequence of one-character strings.  A sentiment score   *)
(* is an integer number of hundredths (0.8 is 80); a mean or a percentage  *)
(* is the exact fraction [num, den].                                       *)
(***************************************************************************)
EXTENDS Integers, Sequences, FiniteSets, TLC

VARIABLES
    now,              \* the local wall clock, datetime.now(), in slots
    utcOffset,        \* SQLite's CURRENT_TIMESTAMP (UTC) minus the local wall clock, in slots
    entries,          \* the journal_entries table: id -> row
    sqlite_sequence,  \* AUTOINCREMENT's record of the largest id ever assigned
    issued,           \* the ids save_entry has returned so far (observation)
    pipelines,        \* sentiment_analyzer.py's global model cache:
                      \* _sentiment_pipeline and _emotion_pipeline
    loads,            \* how often each model was constructed so far (observation)
    ret               \* the last operation: its name, its arguments and what it returned

vars == <<now, utcOffset, entries, sqlite_sequence, issued, pipelines, loads, ret>>

-----------------------------------------------------------------------------
(* Bounds of the model *)

SlotsPerDay == 2     \* resolution of the clock
MaxTicks == 1        \* Spec: how far the clock advances
MaxSaves == 2        \* Spec: successful save_entry calls in one run
StatDays == 6        \* SpecStats: the drawn stores cover the dates 0 .. StatDays-1
MaxRows == 4         \* SpecStats: rows of a drawn store
AheadDays == 2       \* SpecStats: today is at most this many days after the last covered date
MaxFragments == 2    \* SpecAnalyzer: fragments a drawn text is written from

(* Program constants *)

MinChars == 20       \* app.py: len(entry_text) < 20
MaxChars == 5000     \* app.py: max_chars=5000, len(entry_text) > 5000
Days7 == 7           \* timedelta(days=7)
Days30 == 30         \* timedelta(days=30)
ConsistencyDivisor == 30   \* (unique_days / 30) * 100
Percent == 100


\* Python's None / SQL NULL, and a present value of an Optional
None == [isNone |-> TRUE]
Value(v) == [isNone |-> FALSE, value |-> v]

\* Python truthiness of an Optional[str] (or Optional[list]): None and '' are falsy
is_truthy(x) == ~x.isNone /\ x.value # <<>>

-----------------------------------------------------------------------------
(* Sequences and strings *)

Rep(c, n) == [i \in 1..n |-> c]

Range(s) == {s[i] : i \in 1..Len(s)}

RECURSIVE Concat(_)
\* ''.join(parts)
Concat(parts) ==
    IF parts = <<>> THEN <<>> ELSE Head(parts) \o Concat(Tail(parts))

IsSpace(c) == c = " "

RECURSIVE lstrip(_)
lstrip(s) ==
    IF s # <<>> /\ IsSpace(Head(s)) THEN lstrip(Tail(s)) ELSE s

RECURSIVE rstrip(_)
rstrip(s) ==
    IF s # <<>> /\ IsSpace(s[Len(s)]) THEN rstrip(SubSeq(s, 1, Len(s) - 1)) ELSE s

\* str.strip()
strip(s) == rstrip(lstrip(s))

RECURSIVE split(_)
\* str.split(): the maximal runs of non-whitespace characters
split(s) ==
    LET t == lstrip(s)
        wordEnd == IF \E i \in 1..Len(t) : IsSpace(t[i])
                   THEN (CHOOSE i \in 1..Len(t) :
                            IsSpace(t[i]) /\ \A j \in 1..(i - 1) : ~IsSpace(t[j])) - 1
                   ELSE Len(t)
    IN  IF t = <<>> THEN <<>>
        ELSE <<SubSeq(t, 1, wordEnd)>> \o split(SubSeq(t, wordEnd + 1, Len(t)))

-----------------------------------------------------------------------------
(* Dates *)

\* timestamp.dt.date / datetime.date()
DateOf(t) == t \div SlotsPerDay

\* timedelta(days=n)
timedelta(n) == n * SlotsPerDay

Max(S) == CHOOSE m \in S : \A x \in S : x <= m

-----------------------------------------------------------------------------
(* json.dumps / json.loads of a list of strings *)

Quote == "\""
Backslash == "\\"

\* the body of a JSON string: a quote or a backslash is written behind a backslash
json_escape(s) ==
    Concat([i \in 1..Len(s) |->
              IF s[i] \in {Quote, Backslash} THEN <<Backslash, s[i]>> ELSE <<s[i]>>])

RECURSIVE json_items(_)
\* the items of a list, quoted and joined with ", "
json_items(list) ==
    IF list = <<>> THEN <<>>
    ELSE <<Quote>> \o json_escape(Head(list)) \o <<Quote>>
         \o (IF Tail(list) = <<>> THEN <<>> ELSE <<",", " ">> \o json_items(Tail(list)))

\* json.dumps(list)
json_dumps(list) == <<"[">> \o json_items(list) \o <<"]">>

RECURSIVE scan_string(_, _, _)
\* reads a JSON string whose opening quote is just before position i
scan_string(t, i, acc) ==
    IF t[i] = Quote THEN [value |-> acc, next |-> i + 1]
    ELSE IF t[i] = Backslash THEN scan_string(t, i + 2, Append(acc, t[i + 1]))
    ELSE scan_string(t, i + 1, Append(acc, t[i]))

RECURSIVE scan_array(_, _, _)
\* reads the items of a JSON array from position i to the closing bracket
scan_array(t, i, acc) ==
    IF t[i] = "]" THEN acc
    ELSE IF t[i] \in {",", " "} THEN scan_array(t, i + 1, acc)
    ELSE LET item == scan_string(t, i + 1, <<>>)
         IN  scan_array(t, item.next, Append(acc, item.value))

\* json.loads(text) of a JSON array of strings
json_loads(t) == scan_array(t, 2, <<>>)

-----------------------------------------------------------------------------
(* The journal_entries table *)

\* SQLite's CURRENT_TIMESTAMP: the UTC clock
CURRENT_TIMESTAMP(clock, offset) == clock + offset

\* INTEGER PRIMARY KEY without AUTOINCREMENT: one more than the largest id in the table
rowid_without_autoincrement(tbl, seq) == Max({0} \cup DOMAIN tbl) + 1

\* id INTEGER PRIMARY KEY AUTOINCREMENT: one more than the largest id that ever existed
autoincrement(tbl, seq) == Max({seq} \cup DOMAIN tbl) + 1

\* save_entry: what it binds to the INSERT
new_row(stamp, entry_text, user_selected_mood, analysis) ==
    [ timestamp          |-> stamp,
      entry_text         |-> entry_text,
      user_selected_mood |-> user_selected_mood,
      ai_sentiment_label |-> analysis.label,
      ai_sentiment_score |-> analysis.score,
      ai_confidence      |-> analysis.confidence,
      word_count         |-> Len(split(entry_text)),
      detected_emotions  |-> IF analysis.emotions # <<>>
                             THEN Value(json_dumps(analysis.emotions)) ELSE None,
      keywords           |-> IF analysis.keywords # <<>>
                             THEN Value(json_dumps(analysis.keywords)) ELSE None ]

\* INSERT INTO journal_entries
insert(tbl, id, row) ==
    [i \in DOMAIN tbl \cup {id} |-> IF i = id THEN row ELSE tbl[i]]

\* DELETE FROM journal_entries, the WHERE clause left out
delete_every_row(tbl, entry_id) ==
    [i \in {} |-> tbl[i]]

\* DELETE FROM journal_entries WHERE id = ?
delete_where_id(tbl, entry_id) ==
    [i \in DOMAIN tbl \ {entry_id} |-> tbl[i]]

\* the JSON columns as the readers parse them: json.loads(x) if x else []
parse_json_column(x) == IF is_truthy(x) THEN json_loads(x.value) ELSE <<>>

\* the row read with the last two column names in the wrong order
parsed_row_columns_swapped(tbl, id) ==
    [ id                 |-> id,
      timestamp          |-> tbl[id].timestamp,
      entry_text         |-> tbl[id].entry_text,
      user_selected_mood |-> tbl[id].user_selected_mood,
      ai_sentiment_label |-> tbl[id].ai_sentiment_label,
      ai_sentiment_score |-> tbl[id].ai_sentiment_score,
      ai_confidence      |-> tbl[id].ai_confidence,
      word_count         |-> tbl[id].word_count,
      detected_emotions  |-> parse_json_column(tbl[id].keywords),
      keywords           |-> parse_json_column(tbl[id].detected_emotions) ]

\* a row as get_entry_by_id, get_all_entries and get_recent_entries hand it out
parsed_row(tbl, id) ==
    [ id                 |-> id,
      timestamp          |-> tbl[id].timestamp,
      entry_text         |-> tbl[id].entry_text,
      user_selected_mood |-> tbl[id].user_selected_mood,
      ai_sentiment_label |-> tbl[id].ai_sentiment_label,
      ai_sentiment_score |-> tbl[id].ai_sentiment_score,
      ai_confidence      |-> tbl[id].ai_confidence,
      word_count         |-> tbl[id].word_count,
      detected_emotions  |-> parse_json_column(tbl[id].detected_emotions),
      keywords           |-> parse_json_column(tbl[id].keywords) ]

\* get_entry_by_id: the row as a dictionary, or None
get_entry_by_id(tbl, entry_id) ==
    IF entry_id \notin DOMAIN tbl THEN None ELSE parsed_row(tbl, entry_id)

RECURSIVE order_by_timestamp_asc(_, _)
\* ORDER BY timestamp ASC
order_by_timestamp_asc(tbl, ids) ==
    IF ids = {} THEN {<<>>}
    ELSE LET earliest == {i \in ids : \A j \in ids : tbl[i].timestamp <= tbl[j].timestamp}
         IN  UNION {{<<i>> \o rest : rest \in order_by_timestamp_asc(tbl, ids \ {i})}
                    : i \in earliest}

RECURSIVE order_by_timestamp_desc(_, _)
\* ORDER BY timestamp DESC: every order of the ids the query may produce
\* (SQL leaves the order of rows with equal timestamps open)
order_by_timestamp_desc(tbl, ids) ==
    IF ids = {} THEN {<<>>}
    ELSE LET latest == {i \in ids : \A j \in ids : tbl[j].timestamp <= tbl[i].timestamp}
         IN  UNION {{<<i>> \o rest : rest \in order_by_timestamp_desc(tbl, ids \ {i})}
                    : i \in latest}

\* get_all_entries: the DataFrames it may return, each a sequence of parsed rows
get_all_entries(tbl) ==
    {[k \in 1..Len(o) |-> parsed_row(tbl, o[k])]
        : o \in order_by_timestamp_desc(tbl, DOMAIN tbl)}

\* the last limit rows of the query instead of the first
get_oldest_entries(tbl, limit) ==
    {SubSeq(df, (IF limit < Len(df) THEN Len(df) - limit ELSE 0) + 1, Len(df))
        : df \in get_all_entries(tbl)}

\* get_recent_entries: ... LIMIT {limit}
get_recent_entries(tbl, limit) ==
    {SubSeq(df, 1, IF limit < Len(df) THEN limit ELSE Len(df)) : df \in get_all_entries(tbl)}

-----------------------------------------------------------------------------
(* Statistics: DataManager.get_stats, _calculate_streaks and                *)
(* visualizations.get_summary_stats, calculate_current_streak              *)

\* Series.unique() without removing anything: every value, repeats included
unique_keeping_repeats(s) == s

RECURSIVE unique(_)
\* Series.unique(): the distinct values in order of first appearance
unique(s) ==
    IF s = <<>> THEN <<>>
    ELSE LET front == unique(SubSeq(s, 1, Len(s) - 1))
             x == s[Len(s)]
         IN  IF x \in Range(front) THEN front ELSE Append(front, x)

RECURSIVE sorted_reverse(_)
\* sorted(values, reverse=True)
sorted_reverse(s) ==
    IF s = <<>> THEN <<>>
    ELSE LET rest == sorted_reverse(Tail(s))
             x == Head(s)
             k == Cardinality({i \in 1..Len(rest) : rest[i] >= x})
         IN  SubSeq(rest, 1, k) \o <<x>> \o SubSeq(rest, k + 1, Len(rest))

\* dates = sorted(df['timestamp'].dt.date.unique(), reverse=True)
entry_dates(df) ==
    sorted_reverse(unique([i \in 1..Len(df) |-> DateOf(df[i].timestamp)]))

RECURSIVE count_every_consecutive_pair(_, _)
\* the counting loop without its break: every pair of neighbours one day apart
count_every_consecutive_pair(dates, i) ==
    IF i > Len(dates) - 1 THEN 0
    ELSE (IF dates[i] - dates[i + 1] = 1 THEN 1 ELSE 0)
         + count_every_consecutive_pair(dates, i + 1)

RECURSIVE count_consecutive(_, _)
\* for i in range(len(dates) - 1): if (dates[i] - dates[i+1]).days == 1: += 1 else: break
\* the number of increments made from index i on
count_consecutive(dates, i) ==
    IF i > Len(dates) - 1 THEN 0
    ELSE IF dates[i] - dates[i + 1] = 1 THEN 1 + count_consecutive(dates, i + 1)
    ELSE 0

\* the test accepting any most recent date
any_latest_date(dates, today) == TRUE

\* dates[0] == today or dates[0] == yesterday
latest_is_today_or_yesterday(dates, today) ==
    LET yesterday == today - 1
    IN  dates[1] = today \/ dates[1] = yesterday

RECURSIVE longest_loop_without_reset(_, _, _, _)
\* the longest-streak loop that never starts a new run
longest_loop_without_reset(dates, i, temp_streak, longest_streak) ==
    IF i > Len(dates) - 1 THEN longest_streak
    ELSE IF dates[i] - dates[i + 1] = 1
         THEN longest_loop_without_reset(dates, i + 1, temp_streak + 1,
                                         Max({longest_streak, temp_streak + 1}))
         ELSE longest_loop_without_reset(dates, i + 1, temp_streak, longest_streak)

RECURSIVE longest_loop_without_max(_, _, _, _)
\* the longest-streak loop returning the run it counted last
longest_loop_without_max(dates, i, temp_streak, longest_streak) ==
    IF i > Len(dates) - 1 THEN temp_streak
    ELSE IF dates[i] - dates[i + 1] = 1
         THEN longest_loop_without_max(dates, i + 1, temp_streak + 1, longest_streak)
         ELSE longest_loop_without_max(dates, i + 1, 1, longest_streak)

RECURSIVE longest_loop(_, _, _, _)
\* the longest-streak loop of _calculate_streaks from index i on
longest_loop(dates, i, temp_streak, longest_streak) ==
    IF i > Len(dates) - 1 THEN longest_streak
    ELSE IF dates[i] - dates[i + 1] = 1
         THEN longest_loop(dates, i + 1, temp_streak + 1,
                           Max({longest_streak, temp_streak + 1}))
         ELSE longest_loop(dates, i + 1, 1, longest_streak)

\* DataManager._calculate_streaks(df), with today = datetime.now().date()
calculate_streaks(df, today) ==
    IF df = <<>> THEN [current_streak |-> 0, longest_streak |-> 0]
    ELSE LET dates == entry_dates(df)
         IN  IF dates = <<>> THEN [current_streak |-> 0, longest_streak |-> 0]
             ELSE [ current_streak |->
                        IF latest_is_today_or_yesterday(dates, today)
                        THEN 1 + count_consecutive(dates, 1)
                        ELSE 0,
                    longest_streak |-> longest_loop(dates, 1, 1, 1) ]

\* a current streak that must reach today
current_streak_from_today(df, today) ==
    IF df = <<>> THEN 0
    ELSE LET dates == entry_dates(df)
         IN  IF dates[1] # today THEN 0 ELSE 1 + count_consecutive(dates, 1)

\* visualizations.calculate_current_streak(df)
calculate_current_streak(df, today) ==
    IF df = <<>> THEN 0
    ELSE LET dates == sorted_reverse(unique([i \in 1..Len(df) |-> DateOf(df[i].timestamp)]))
             yesterday == today - 1
         IN  IF dates = <<>> THEN 0
             ELSE IF dates[1] # today /\ dates[1] # yesterday THEN 0
             ELSE 1 + count_consecutive(dates, 1)

RECURSIVE Sum(_)
Sum(s) == IF s = <<>> THEN 0 ELSE Head(s) + Sum(Tail(s))

\* the number num / den
Fraction(num, den) == [num |-> num, den |-> den]
Zero == Fraction(0, 1)
FracEq(a, b) == a.num * b.den = b.num * a.den
FracLeq(a, b) == a.num * b.den <= b.num * a.den

\* Series.mean() of the scores of a non-empty frame
mean_score(df) == Fraction(Sum([i \in 1..Len(df) |-> df[i].ai_sentiment_score]), Len(df))

\* the rows strictly later than clock - timedelta(days=n)
since_after(df, clock, n) ==
    SelectSeq(df, LAMBDA row : row.timestamp > clock - timedelta(n))

\* df[df['timestamp'] >= clock - timedelta(days=n)]
since(df, clock, n) ==
    SelectSeq(df, LAMBDA row : row.timestamp >= clock - timedelta(n))

RECURSIVE all_emotions(_)
\* all_emotions.extend(emotions) for every row
all_emotions(df) ==
    IF df = <<>> THEN <<>> ELSE Head(df).detected_emotions \o all_emotions(Tail(df))

\* list.count(x)
count(list, x) == Cardinality({i \in 1..Len(list) : list[i] = x})

\* any tag of the list, whatever its count
any_tag(all) == Range(all)

\* max(set(all), key=all.count): a tag of maximal count; which one among several
\* depends on the iteration order of the set
max_by_count(all) ==
    {x \in Range(all) : \A y \in Range(all) : count(all, y) <= count(all, x)}

\* Counter(all).most_common(1)[0][0]: the tag of maximal count that appears first
most_common(all) ==
    LET first(x) == CHOOSE i \in 1..Len(all) : all[i] = x /\ \A j \in 1..(i - 1) : all[j] # x
    IN  CHOOSE x \in max_by_count(all) : \A y \in max_by_count(all) : first(x) <= first(y)

\* the number of rows instead of the number of distinct dates
count_rows(df) == Len(df)

\* unique_days = df_30d['timestamp'].dt.date.nunique()
nunique_dates(df) == Cardinality({DateOf(df[i].timestamp) : i \in 1..Len(df)})

\* DataManager.get_stats on the frame get_all_entries returned: every dictionary
\* it may return
get_stats(df, clock) ==
    IF df = <<>>
    THEN {[ total_entries |-> 0, current_streak |-> 0, longest_streak |-> 0,
            avg_mood_7d |-> Zero, avg_mood_30d |-> Zero,
            most_common_emotion |-> None, consistency_30d |-> Zero ]}
    ELSE LET streaks == calculate_streaks(df, DateOf(clock))
             df_7d == since(df, clock, Days7)
             df_30d == since(df, clock, Days30)
             all == all_emotions(df)
             unique_days == nunique_dates(df_30d)
         IN  {[ total_entries |-> Len(df),
                current_streak |-> streaks.current_streak,
                longest_streak |-> streaks.longest_streak,
                avg_mood_7d |-> IF df_7d # <<>> THEN mean_score(df_7d) ELSE Zero,
                avg_mood_30d |-> IF df_30d # <<>> THEN mean_score(df_30d) ELSE Zero,
                most_common_emotion |-> emotion,
                consistency_30d |-> Fraction(unique_days * Percent, ConsistencyDivisor) ]
              : emotion \in IF all # <<>> THEN {Value(x) : x \in max_by_count(all)}
                            ELSE {None}}

NoneString == <<"N", "o", "n", "e">>

\* visualizations.get_summary_stats(df)
get_summary_stats(df, clock) ==
    IF df = <<>>
    THEN [ total_entries |-> 0, current_streak |-> 0, avg_mood_7d |-> Zero,
           top_emotion |-> NoneString ]
    ELSE LET df_7d == since(df, clock, Days7)
             all == all_emotions(df)
         IN  [ total_entries |-> Len(df),
               current_streak |-> calculate_current_streak(df, DateOf(clock)),
               avg_mood_7d |-> IF df_7d # <<>> THEN mean_score(df_7d) ELSE Zero,
               top_emotion |-> IF all # <<>> THEN most_common(all) ELSE NoneString ]

\* COLORS of visualizations.py
COLORS == [positive |-> "#4CAF50", neutral |-> "#FFC107", negative |-> "#F44336"]

\* the bar of a mean above 0.3 is green, below -0.3 red (hundredths)
ColorZone == 30

DaysPerWeek == 7
day_order ==
    <<"Monday", "Tuesday", "Wednesday", "Thursday", "Friday", "Saturday", "Sunday">>

\* Series.dt.day_name(): the weekday of a timestamp; date 0 is a Monday
day_name(t) == day_order[(DateOf(t) % DaysPerWeek) + 1]

\* NaN, the mean pandas gives a label that no row has
NaN == [isNaN |-> TRUE]

\* df.groupby('day_of_week')['ai_sentiment_score'].mean(): the mean of each
\* weekday that has a row
groupby_mean(df) ==
    [day \in {day_name(df[k].timestamp) : k \in 1..Len(df)} |->
        mean_score(SelectSeq(df, LAMBDA row : day_name(row.timestamp) = day))]

\* Series.reindex(index, fill_value=0)
reindex_fill_zero(series, index) ==
    [k \in 1..Len(index) |->
        IF index[k] \in DOMAIN series THEN series[index[k]] ELSE Zero]

\* Series.reindex(index): the values in the order of index, NaN for a label the
\* series does not have
reindex(series, index) ==
    [k \in 1..Len(index) |->
        IF index[k] \in DOMAIN series THEN series[index[k]] ELSE NaN]

\* visualizations.create_day_of_week_chart(df): the figure's title, annotation
\* and bars
create_day_of_week_chart(df) ==
    IF df = <<>>
    THEN [ title |-> "Mood by Day of Week", annotation |-> "No data available",
           x |-> <<>>, y |-> <<>>, marker_color |-> <<>> ]
    ELSE LET mood_by_day == reindex(groupby_mean(df), day_order)
             \* every comparison with NaN is False
             above(x) == x # NaN /\ x.num > ColorZone * x.den
             below(x) == x # NaN /\ x.num < (-ColorZone) * x.den
         IN  [ title |-> "Average Mood by Day of Week", annotation |-> "",
               x |-> day_order, y |-> mood_by_day,
               marker_color |->
                   [k \in 1..Len(mood_by_day) |->
                       IF above(mood_by_day[k]) THEN COLORS.positive
                       ELSE IF below(mood_by_day[k]) THEN COLORS.negative
                       ELSE COLORS.neutral] ]

-----------------------------------------------------------------------------
(* Inputs *)

\* the offsets between the UTC clock and the local wall clock, in slots
UtcOffsets == {-1, 0, 1}

\* the first slot of the local wall clock: the second calendar day
FirstSlot == timedelta(1)

Word(c, n) == Rep(c, n)
Blank(n) == Rep(" ", n)

joy == <<"j", "o", "y">>
sadness == <<"s", "a", "d", "n", "e", "s", "s">>
fear == <<"f", "e", "a", "r">>
stress == <<"s", "t", "r", "e", "s", "s">>
neutral == <<"n", "e", "u", "t", "r", "a", "l">>

\* results of analyze_sentiment: label, score, confidence, 1-3 emotions, 0-5 keywords
NeutralResult ==
    [ label |-> "NEUTRAL", score |-> 0, confidence |-> 0,
      emotions |-> <<neutral>>, keywords |-> <<>> ]
PositiveResult ==
    [ label |-> "POSITIVE", score |-> 80, confidence |-> 80,
      emotions |-> <<joy, stress>>, keywords |-> <<Word("a", 3), Word("b", 4)>> ]
NegativeResult ==
    [ label |-> "NEGATIVE", score |-> -20, confidence |-> 20,
      emotions |-> <<sadness, fear, stress>>,
      keywords |-> <<Word("e", 3), Word("d", 3), Word("c", 3), Word("b", 3), Word("a", 3)>> ]

\* the mood buttons: no selection, or an emoji
NoMood == None
Smile == Value(<<":", ")">>)

Submission(text, mood, result) ==
    [entry_text |-> text, user_selected_mood |-> mood, analysis |-> result]

\* what the user may submit: the text typed into the text area, the mood selected,
\* and what analyze_sentiment returns for that text
Submissions ==
    { Submission(<<>>, NoMood, NeutralResult),                        \* nothing
      Submission(Blank(MinChars + 1), Smile, NeutralResult),          \* whitespace only
      Submission(Word("a", 4) \o Blank(1) \o Word("b", 3), NoMood, PositiveResult),
      Submission(Word("a", MinChars - 1), Smile, NegativeResult),     \* one short
      Submission(Word("a", 5) \o Blank(MinChars), NoMood, NeutralResult),
      Submission(Blank(1) \o Word("a", 9) \o Blank(2) \o Word("b", MinChars - 10),
                 Smile, NegativeResult) }

\* ids a caller may ask for: every id that can exist, and one that never does
Ids == 1..(MaxSaves + 1)

\* get_recent_entries(limit=10), and smaller limits
DefaultLimit == 10
Limits == {1, DefaultLimit}

-----------------------------------------------------------------------------
(* The Analyzer: utils/sentiment_analyzer_lite.py (the one app.py imports)  *)
(* and utils/sentiment_analyzer.py (the heavier variant)                    *)

anger == <<"a", "n", "g", "e", "r">>
surprise == <<"s", "u", "r", "p", "r", "i", "s", "e">>
gratitude == <<"g", "r", "a", "t", "i", "t", "u", "d", "e">>
hope == <<"h", "o", "p", "e">>
disgust == <<"d", "i", "s", "g", "u", "s", "t">>

\* _extract_keywords(text, top_n=5)
top_n == 5
\* the {3,} of the pattern \b[a-z]{3,}\b
MinRepeat == 3
\* sorted_emotions[:3], detected[:3]
TopEmotions == 3
\* polarity > 0.1, polarity < -0.1, in hundredths
Threshold == 10
\* score > 0.3, score < -0.3, in hundredths
NeutralZone == 30
\* 'confidence': 0.5, in hundredths
TextBlobConfidence == 50

ascii_lowercase ==
    << "a", "b", "c", "d", "e", "f", "g", "h", "i", "j", "k", "l", "m",
       "n", "o", "p", "q", "r", "s", "t", "u", "v", "w", "x", "y", "z" >>
ascii_uppercase ==
    << "A", "B", "C", "D", "E", "F", "G", "H", "I", "J", "K", "L", "M",
       "N", "O", "P", "Q", "R", "S", "T", "U", "V", "W", "X", "Y", "Z" >>
digits == << "0", "1", "2", "3", "4", "5", "6", "7", "8", "9" >>

\* the lower-case letter of each upper-case letter
lower_of ==
    [c \in {ascii_uppercase[k] : k \in DOMAIN ascii_uppercase} |->
        ascii_lowercase[CHOOSE k \in DOMAIN ascii_uppercase : ascii_uppercase[k] = c]]

\* str.lower()
lower(s) ==
    [i \in 1..Len(s) |-> IF s[i] \in DOMAIN lower_of THEN lower_of[s[i]] ELSE s[i]]

\* abs(x)
abs(x) == IF x < 0 THEN -x ELSE x

\* the whole list, nothing cut off
every_label(labels, n) == labels

\* the slice s[:n]
slice_to(s, n) == SubSeq(s, 1, IF Len(s) < n THEN Len(s) ELSE n)

\* keyword in text: text has keyword as a substring
str_contains(text, keyword) ==
    \E i \in 1..(Len(text) - Len(keyword) + 1) :
        \A j \in 1..Len(keyword) : text[i + j - 1] = keyword[j]

\* the character class [a-z]
a_z == Range(ascii_lowercase)
is_a_z(c) == c \in a_z

\* the character class \w
word_chars == Range(ascii_lowercase) \cup Range(ascii_uppercase) \cup Range(digits) \cup {"_"}
is_word_char(c) == c \in word_chars

\* \b just before t[i]: exactly one of the two neighbours is a \w character
word_boundary(t, i) ==
    LET before == i > 1 /\ is_word_char(t[i - 1])
        after == i <= Len(t) /\ is_word_char(t[i])
    IN  before # after

RECURSIVE run_end(_, _)
\* the last position of the run of [a-z] characters starting at i (i - 1 if none)
run_end(t, i) ==
    IF i <= Len(t) /\ is_a_z(t[i]) THEN run_end(t, i + 1) ELSE i - 1

\* where the match of \b[a-z]{3,}\b that starts at i ends: the longest repetition
\* followed by \b; 0 if the pattern does not match at i
match_end(t, i) ==
    IF ~word_boundary(t, i) THEN 0
    ELSE LET ends == {k \in (i + MinRepeat - 1)..run_end(t, i) : word_boundary(t, k + 1)}
         IN  IF ends = {} THEN 0 ELSE Max(ends)

RECURSIVE findall(_, _)
\* re.findall(r'\b[a-z]{3,}\b', t), scanning from position i
findall(t, i) ==
    IF i > Len(t) THEN <<>>
    ELSE LET k == match_end(t, i)
         IN  IF k = 0 THEN findall(t, i + 1)
             ELSE <<SubSeq(t, i, k)>> \o findall(t, k + 1)

RECURSIVE Counter(_)
\* Counter(words).items(): <<word, count>>, the words in order of first occurrence
Counter(words) ==
    IF words = <<>> THEN <<>>
    ELSE LET front == Counter(SubSeq(words, 1, Len(words) - 1))
             w == words[Len(words)]
         IN  IF \E i \in 1..Len(front) : front[i][1] = w
             THEN [i \in 1..Len(front) |->
                     IF front[i][1] = w THEN <<w, front[i][2] + 1>> ELSE front[i]]
             ELSE Append(front, <<w, 1>>)

\* sorting by the second component without reverse=True: ascending
sorted_by_second_ascending(items) ==
    LET rank(i) == Cardinality({j \in 1..Len(items) :
                        items[j][2] < items[i][2] \/ (items[j][2] = items[i][2] /\ j <= i)})
    IN  [r \in 1..Len(items) |-> items[CHOOSE i \in 1..Len(items) : rank(i) = r]]

\* sorted(items, key=lambda x: x[1], reverse=True): descending by the second
\* component, equal ones in their original order
sorted_by_second_reverse(items) ==
    LET rank(i) == Cardinality({j \in 1..Len(items) :
                        items[j][2] > items[i][2] \/ (items[j][2] = items[i][2] /\ j <= i)})
    IN  [r \in 1..Len(items) |-> items[CHOOSE i \in 1..Len(items) : rank(i) = r]]

\* the first components of a list of pairs
keys_of(items) == [i \in 1..Len(items) |-> items[i][1]]

stop_words ==
    { <<"t", "h", "e">>, <<"a">>, <<"a", "n">>, <<"a", "n", "d">>, <<"o", "r">>,
      <<"b", "u", "t">>, <<"i", "n">>, <<"o", "n">>, <<"a", "t">>, <<"t", "o">>,
      <<"f", "o", "r">>, <<"o", "f">>, <<"w", "i", "t", "h">>, <<"b", "y">>,
      <<"f", "r", "o", "m">>, <<"a", "s">>, <<"i", "s">>, <<"w", "a", "s">>,
      <<"a", "r", "e">>, <<"w", "e", "r", "e">>, <<"b", "e", "e", "n">>,
      <<"b", "e">>, <<"h", "a", "v", "e">>, <<"h", "a", "s">>, <<"h", "a", "d">>,
      <<"d", "o">>, <<"d", "o", "e", "s">>, <<"d", "i", "d">>,
      <<"w", "i", "l", "l">>, <<"w", "o", "u", "l", "d">>,
      <<"c", "o", "u", "l", "d">>, <<"s", "h", "o", "u", "l", "d">>,
      <<"m", "a", "y">>, <<"m", "i", "g", "h", "t">>, <<"c", "a", "n">>, <<"i">>,
      <<"y", "o", "u">>, <<"h", "e">>, <<"s", "h", "e">>, <<"i", "t">>,
      <<"w", "e">>, <<"t", "h", "e", "y">>, <<"m", "y">>, <<"y", "o", "u", "r">>,
      <<"h", "i", "s">>, <<"h", "e", "r">>, <<"i", "t", "s">>, <<"o", "u", "r">>,
      <<"t", "h", "e", "i", "r">>, <<"t", "h", "i", "s">>, <<"t", "h", "a", "t">>,
      <<"t", "h", "e", "s", "e">>, <<"t", "h", "o", "s", "e">>, <<"a", "m">>,
      <<"m", "e">>, <<"j", "u", "s", "t">>, <<"s", "o">>, <<"v", "e", "r", "y">>,
      <<"r", "e", "a", "l", "l", "y">>, <<"t", "o", "o">>, <<"m", "u", "c", "h">>,
      <<"m", "o", "r", "e">>, <<"m", "o", "s", "t">>, <<"s", "o", "m", "e">>,
      <<"a", "n", "y">>, <<"a", "l", "l">>, <<"b", "o", "t", "h">>,
      <<"e", "a", "c", "h">>, <<"f", "e", "w">>, <<"m", "a", "n", "y">>,
      <<"o", "t", "h", "e", "r">>, <<"s", "u", "c", "h">>, <<"n", "o">>,
      <<"n", "o", "t">>, <<"o", "n", "l", "y">>, <<"o", "w", "n">>,
      <<"s", "a", "m", "e">>, <<"t", "h", "a", "n">>, <<"t", "h", "e", "n">>,
      <<"t", "h", "e", "r", "e">>, <<"w", "h", "e", "n">>,
      <<"w", "h", "e", "r", "e">>, <<"w", "h", "y">>, <<"h", "o", "w">> }

lite_emotion_keywords ==
    << [ emotion |-> joy,
        keywords |-> << <<"h", "a", "p", "p", "y">>, <<"j", "o", "y">>,
                        <<"e", "x", "c", "i", "t", "e", "d">>,
                        <<"w", "o", "n", "d", "e", "r", "f", "u", "l">>,
                        <<"a", "m", "a", "z", "i", "n", "g">>,
                        <<"g", "r", "e", "a", "t">>, <<"l", "o", "v", "e">>,
                        <<"f", "a", "n", "t", "a", "s", "t", "i", "c">>,
                        <<"d", "e", "l", "i", "g", "h", "t", "e", "d">>,
                        <<"t", "h", "r", "i", "l", "l", "e", "d">> >> ],
       [ emotion |-> sadness,
        keywords |-> << <<"s", "a", "d">>,
                        <<"d", "e", "p", "r", "e", "s", "s", "e", "d">>,
                        <<"u", "n", "h", "a", "p", "p", "y">>,
                        <<"d", "o", "w", "n">>, <<"c", "r", "y", "i", "n", "g">>,
                        <<"t", "e", "a", "r", "s">>,
                        <<"l", "o", "n", "e", "l", "y">>, <<"m", "i", "s", "s">>,
                        <<"d", "i", "s", "a", "p", "p", "o", "i", "n", "t", "e", "d">>,
                        <<"h", "e", "a", "r", "t", "b", "r", "o", "k", "e", "n">> >> ],
       [ emotion |-> anger,
        keywords |-> << <<"a", "n", "g", "r", "y">>, <<"m", "a", "d">>,
                        <<"f", "u", "r", "i", "o", "u", "s">>,
                        <<"a", "n", "n", "o", "y", "e", "d">>,
                        <<"f", "r", "u", "s", "t", "r", "a", "t", "e", "d">>,
                        <<"i", "r", "r", "i", "t", "a", "t", "e", "d">>,
                        <<"h", "a", "t", "e">>, <<"r", "a", "g", "e">>,
                        <<"o", "u", "t", "r", "a", "g", "e", "d">> >> ],
       [ emotion |-> fear,
        keywords |-> << <<"a", "f", "r", "a", "i", "d">>,
                        <<"s", "c", "a", "r", "e", "d">>,
                        <<"a", "n", "x", "i", "o", "u", "s">>,
                        <<"w", "o", "r", "r", "i", "e", "d">>,
                        <<"n", "e", "r", "v", "o", "u", "s">>,
                        <<"p", "a", "n", "i", "c">>,
                        <<"t", "e", "r", "r", "i", "f", "i", "e", "d">>,
                        <<"f", "r", "i", "g", "h", "t", "e", "n", "e", "d">> >> ],
       [ emotion |-> surprise,
        keywords |-> << <<"s", "u", "r", "p", "r", "i", "s", "e", "d">>,
                        <<"s", "h", "o", "c", "k", "e", "d">>,
                        <<"a", "m", "a", "z", "e", "d">>,
                        <<"u", "n", "e", "x", "p", "e", "c", "t", "e", "d">>,
                        <<"s", "u", "d", "d", "e", "n">>, <<"w", "o", "w">>,
                        <<"a", "s", "t", "o", "n", "i", "s", "h", "e", "d">> >> ],
       [ emotion |-> gratitude,
        keywords |-> << <<"g", "r", "a", "t", "e", "f", "u", "l">>,
                        <<"t", "h", "a", "n", "k", "f", "u", "l">>,
                        <<"a", "p", "p", "r", "e", "c", "i", "a", "t", "e">>,
                        <<"b", "l", "e", "s", "s", "e", "d">>,
                        <<"l", "u", "c", "k", "y">>,
                        <<"f", "o", "r", "t", "u", "n", "a", "t", "e">>,
                        <<"t", "h", "a", "n", "k", "s">> >> ],
       [ emotion |-> hope,
        keywords |-> << <<"h", "o", "p", "e">>,
                        <<"o", "p", "t", "i", "m", "i", "s", "t", "i", "c">>,
                        <<"l", "o", "o", "k", "i", "n", "g", " ", "f", "o", "r", "w", "a", "r", "d">>,
                        <<"e", "x", "c", "i", "t", "e", "d", " ", "a", "b", "o", "u", "t">>,
                        <<"c", "a", "n", "'", "t", " ", "w", "a", "i", "t">>,
                        <<"h", "o", "p", "e", "f", "u", "l">> >> ],
       [ emotion |-> stress,
        keywords |-> << <<"s", "t", "r", "e", "s", "s", "e", "d">>,
                        <<"o", "v", "e", "r", "w", "h", "e", "l", "m", "e", "d">>,
                        <<"p", "r", "e", "s", "s", "u", "r", "e">>,
                        <<"b", "u", "r", "d", "e", "n">>,
                        <<"e", "x", "h", "a", "u", "s", "t", "e", "d">>,
                        <<"t", "i", "r", "e", "d">>,
                        <<"b", "u", "r", "n", "e", "d", " ", "o", "u", "t">> >> ] >>

full_emotion_keywords ==
    << [ emotion |-> joy,
        keywords |-> << <<"h", "a", "p", "p", "y">>, <<"j", "o", "y">>,
                        <<"e", "x", "c", "i", "t", "e", "d">>,
                        <<"w", "o", "n", "d", "e", "r", "f", "u", "l">>,
                        <<"a", "m", "a", "z", "i", "n", "g">>,
                        <<"g", "r", "e", "a", "t">>, <<"l", "o", "v", "e">>,
                        <<"f", "a", "n", "t", "a", "s", "t", "i", "c">> >> ],
       [ emotion |-> sadness,
        keywords |-> << <<"s", "a", "d">>,
                        <<"d", "e", "p", "r", "e", "s", "s", "e", "d">>,
                        <<"u", "n", "h", "a", "p", "p", "y">>,
                        <<"d", "o", "w", "n">>, <<"c", "r", "y", "i", "n", "g">>,
                        <<"t", "e", "a", "r", "s">>,
                        <<"l", "o", "n", "e", "l", "y">>, <<"m", "i", "s", "s">> >> ],
       [ emotion |-> anger,
        keywords |-> << <<"a", "n", "g", "r", "y">>, <<"m", "a", "d">>,
                        <<"f", "u", "r", "i", "o", "u", "s">>,
                        <<"a", "n", "n", "o", "y", "e", "d">>,
                        <<"f", "r", "u", "s", "t", "r", "a", "t", "e", "d">>,
                        <<"i", "r", "r", "i", "t", "a", "t", "e", "d">>,
                        <<"h", "a", "t", "e">> >> ],
       [ emotion |-> fear,
        keywords |-> << <<"a", "f", "r", "a", "i", "d">>,
                        <<"s", "c", "a", "r", "e", "d">>,
                        <<"a", "n", "x", "i", "o", "u", "s">>,
                        <<"w", "o", "r", "r", "i", "e", "d">>,
                        <<"n", "e", "r", "v", "o", "u", "s">>,
                        <<"p", "a", "n", "i", "c">>,
                        <<"t", "e", "r", "r", "i", "f", "i", "e", "d">> >> ],
       [ emotion |-> surprise,
        keywords |-> << <<"s", "u", "r", "p", "r", "i", "s", "e", "d">>,
                        <<"s", "h", "o", "c", "k", "e", "d">>,
                        <<"a", "m", "a", "z", "e", "d">>,
                        <<"u", "n", "e", "x", "p", "e", "c", "t", "e", "d">>,
                        <<"s", "u", "d", "d", "e", "n">>, <<"w", "o", "w">> >> ],
       [ emotion |-> gratitude,
        keywords |-> << <<"g", "r", "a", "t", "e", "f", "u", "l">>,
                        <<"t", "h", "a", "n", "k", "f", "u", "l">>,
                        <<"a", "p", "p", "r", "e", "c", "i", "a", "t", "e">>,
                        <<"b", "l", "e", "s", "s", "e", "d">>,
                        <<"l", "u", "c", "k", "y">>,
                        <<"f", "o", "r", "t", "u", "n", "a", "t", "e">> >> ],
       [ emotion |-> hope,
        keywords |-> << <<"h", "o", "p", "e">>,
                        <<"o", "p", "t", "i", "m", "i", "s", "t", "i", "c">>,
                        <<"l", "o", "o", "k", "i", "n", "g", " ", "f", "o", "r", "w", "a", "r", "d">>,
                        <<"e", "x", "c", "i", "t", "e", "d", " ", "a", "b", "o", "u", "t">>,
                        <<"c", "a", "n", "'", "t", " ", "w", "a", "i", "t">> >> ],
       [ emotion |-> stress,
        keywords |-> << <<"s", "t", "r", "e", "s", "s", "e", "d">>,
                        <<"o", "v", "e", "r", "w", "h", "e", "l", "m", "e", "d">>,
                        <<"p", "r", "e", "s", "s", "u", "r", "e">>,
                        <<"b", "u", "r", "d", "e", "n">>,
                        <<"e", "x", "h", "a", "u", "s", "t", "e", "d">>,
                        <<"t", "i", "r", "e", "d">> >> ] >>

\* keeping every token: no stop word removed
keep_stop_words(words) == words

\* [w for w in words if w not in stop_words]
filter_stop_words(words) == SelectSeq(words, LAMBDA w : w \notin stop_words)

\* _extract_keywords(text) (the same code in both variants)
extract_keywords(text) ==
    LET words == findall(lower(text), 1)
        filtered_words == filter_stop_words(words)
        word_counts == Counter(filtered_words)
    IN  keys_of(slice_to(sorted_by_second_reverse(word_counts), top_n))

\* inferring 'neutral' whatever the label
inferred_neutral(sentiment_label) == <<neutral>>

\* if not detected: the tag inferred from the sentiment label
inferred_from_sentiment(sentiment_label) ==
    IF sentiment_label = "POSITIVE" THEN <<joy>>
    ELSE IF sentiment_label = "NEGATIVE" THEN <<sadness>>
    ELSE <<neutral>>

\* count = sum(1 for keyword in keywords if keyword in text_lower)
keyword_count(text_lower, keywords) ==
    Cardinality({k \in 1..Len(keywords) : str_contains(text_lower, keywords[k])})

\* sentiment_analyzer_lite._detect_emotions_from_keywords
lite_detect_emotions_from_keywords(text, sentiment_label) ==
    LET text_lower == lower(text)
        counted == [i \in 1..Len(lite_emotion_keywords) |->
                      << lite_emotion_keywords[i].emotion,
                         keyword_count(text_lower, lite_emotion_keywords[i].keywords) >>]
        emotion_scores == SelectSeq(counted, LAMBDA item : item[2] > 0)
        sorted_emotions == sorted_by_second_reverse(emotion_scores)
        detected == keys_of(slice_to(sorted_emotions, TopEmotions))
    IN  IF detected = <<>> THEN inferred_from_sentiment(sentiment_label) ELSE detected

\* sentiment_analyzer._detect_emotions_from_keywords
full_detect_emotions_from_keywords(text, sentiment_label) ==
    LET text_lower == lower(text)
        matched == SelectSeq(full_emotion_keywords,
                       LAMBDA e : \E k \in 1..Len(e.keywords) :
                                     str_contains(text_lower, e.keywords[k]))
        detected == [i \in 1..Len(matched) |-> matched[i].emotion]
    IN  slice_to(IF detected = <<>> THEN inferred_from_sentiment(sentiment_label)
                 ELSE detected, TopEmotions)

\* what a call did: it returned a value, or it raised
Returned(v) == [raised |-> FALSE, value |-> v]
Raised == [raised |-> TRUE]

\* the collaborators of the Analyzer, each as what it does when it is called:
\* TextBlob(text).sentiment.polarity
TextBlobMissing == [outcome |-> "ImportError", polarity |-> 0]
TextBlobRaises == [outcome |-> "Exception", polarity |-> 0]
TextBlobReturns(polarity) == [outcome |-> "returns", polarity |-> polarity]
\* the sentiment pipeline: not loaded ("failed"), raising when called, or returning
\* result = {'label': ..., 'score': ...}
SentimentPipelineFailed == [outcome |-> "failed", label |-> "NEGATIVE", score |-> 0]
SentimentPipelineRaises == [outcome |-> "Exception", label |-> "NEGATIVE", score |-> 0]
SentimentPipelineReturns(label, score) ==
    [outcome |-> "returns", label |-> label, score |-> score]
\* the emotion pipeline: not loaded ("failed"), raising when called, or returning
\* results, a list holding the list of <<label, score>> of the text
EmotionPipelineFailed == [outcome |-> "failed", results |-> <<>>]
EmotionPipelineRaises == [outcome |-> "Exception", results |-> <<>>]
EmotionPipelineReturns(results) == [outcome |-> "returns", results |-> results]

\* the label of a polarity: > 0.1 POSITIVE, < -0.1 NEGATIVE, else NEUTRAL
label_inclusive(polarity) ==
    IF polarity >= Threshold THEN "POSITIVE"
    ELSE IF polarity <= -Threshold THEN "NEGATIVE"
    ELSE "NEUTRAL"

label_of(polarity) ==
    IF polarity > Threshold THEN "POSITIVE"
    ELSE IF polarity < -Threshold THEN "NEGATIVE"
    ELSE "NEUTRAL"

\* the dictionary of the two except branches of sentiment_analyzer_lite.analyze_sentiment
lite_default_values(text) ==
    [ label |-> "NEUTRAL", score |-> 0, confidence |-> 0,
      emotions |-> <<neutral>>, keywords |-> extract_keywords(text) ]

\* analyze_sentiment without its except branches
lite_analyze_sentiment_uncaught(text, textblob) ==
    IF textblob.outcome = "returns"
    THEN LET polarity == textblob.polarity
             label == label_of(polarity)
         IN  Returned([ label |-> label, score |-> polarity,
                        confidence |-> abs(polarity),
                        emotions |-> lite_detect_emotions_from_keywords(text, label),
                        keywords |-> extract_keywords(text) ])
    ELSE Raised

\* sentiment_analyzer_lite.analyze_sentiment
lite_analyze_sentiment(text, textblob) ==
    IF textblob.outcome = "returns"
    THEN LET polarity == textblob.polarity
             label == label_of(polarity)
         IN  Returned([ label |-> label, score |-> polarity,
                        confidence |-> abs(polarity),
                        emotions |-> lite_detect_emotions_from_keywords(text, label),
                        keywords |-> extract_keywords(text) ])
    ELSE IF textblob.outcome = "ImportError"
    THEN Returned(lite_default_values(text))
    ELSE Returned(lite_default_values(text))

\* sentiment_analyzer._fallback_sentiment_textblob
fallback_sentiment_textblob(text, textblob) ==
    IF textblob.outcome = "returns"
    THEN [ label |-> label_of(textblob.polarity), score |-> textblob.polarity,
           confidence |-> TextBlobConfidence ]
    ELSE [ label |-> "NEUTRAL", score |-> 0, confidence |-> 0 ]

\* the module-level caches before anything was loaded: both None
NothingLoaded == [sentiment |-> "None", emotion |-> "None"]
NoLoads == [sentiment |-> 0, emotion |-> 0]

\* the object pipeline(...) constructs, or "failed" when constructing it raises
constructed(pipeline) == IF pipeline.outcome = "failed" THEN "failed" ELSE "pipeline"

\* a loader that constructs the model at every call
load_without_cache(cached, sentiment_pipeline) ==
    [cached |-> constructed(sentiment_pipeline), constructs |-> 1]

\* _load_sentiment_model: the cache after the call, and how often pipeline(...)
\* was called
load_sentiment_model(cached, sentiment_pipeline) ==
    IF cached = "None"
    THEN [cached |-> constructed(sentiment_pipeline), constructs |-> 1]
    ELSE [cached |-> cached, constructs |-> 0]

\* _load_emotion_model
load_emotion_model(cached, emotion_pipeline) ==
    IF cached = "None"
    THEN [cached |-> constructed(emotion_pipeline), constructs |-> 1]
    ELSE [cached |-> cached, constructs |-> 0]

\* the try block of sentiment_analyzer.analyze_sentiment on what the sentiment
\* pipeline returned: result = sentiment_pipeline(truncated_text)[0]
sentiment_from_pipeline(result) ==
    LET score == IF result.label = "POSITIVE" THEN result.score ELSE -result.score
        label == IF score > NeutralZone THEN "POSITIVE"
                 ELSE IF score < -NeutralZone THEN "NEGATIVE"
                 ELSE "NEUTRAL"
    IN  [ label |-> label, score |-> score, confidence |-> result.score ]

\* sentiment_analyzer._detect_emotions_with_model
detect_emotions_with_model(text, emotion_pipeline) ==
    IF emotion_pipeline.outcome = "failed" THEN <<>>
    ELSE IF emotion_pipeline.outcome = "Exception" THEN <<>>
    ELSE LET results == emotion_pipeline.results
         IN  IF results # <<>>
             THEN slice_to(keys_of(sorted_by_second_reverse(results[1])), TopEmotions)
             ELSE <<>>

\* sentiment_analyzer.analyze_sentiment
full_analyze_sentiment(text, sentiment_pipeline, textblob, emotion_pipeline) ==
    LET sentiment_data ==
            IF sentiment_pipeline.outcome = "returns"
            THEN sentiment_from_pipeline(sentiment_pipeline)
            ELSE fallback_sentiment_textblob(text, textblob)
        model_emotions == detect_emotions_with_model(text, emotion_pipeline)
        emotions == IF model_emotions = <<>>
                    THEN full_detect_emotions_from_keywords(text, sentiment_data.label)
                    ELSE model_emotions
    IN  Returned([ label |-> sentiment_data.label, score |-> sentiment_data.score,
                   confidence |-> sentiment_data.confidence,
                   emotions |-> emotions, keywords |-> extract_keywords(text) ])

-----------------------------------------------------------------------------
(* The operations *)

Init ==
    /\ now = FirstSlot
    /\ utcOffset \in UtcOffsets
    /\ entries = <<>>
    /\ sqlite_sequence = 0
    /\ issued = {}
    /\ pipelines = NothingLoaded
    /\ loads = NoLoads
    /\ ret = [op |-> "init"]

\* the wall clock advances
Tick ==
    /\ now < FirstSlot + MaxTicks
    /\ now' = now + 1
    /\ ret' = [op |-> "tick"]
    /\ UNCHANGED <<utcOffset, entries, sqlite_sequence, issued, pipelines, loads>>

\* what becomes of the connection of an operation that fails: sqlite3.connect
\* raised and there is none, or a statement or the commit raised and conn.close()
\* is never reached
ConnectionsAfterFailure == {"none", "open"}

\* DataManager.save_entry: the INSERT commits, or the store fails and it raises
SaveEntry(entry_text, user_selected_mood, analysis, db_ok) ==
    LET entry_id == autoincrement(entries, sqlite_sequence)
        row == new_row(CURRENT_TIMESTAMP(now, utcOffset), entry_text,
                       user_selected_mood, analysis)
    IN  IF db_ok
        THEN /\ entries' = insert(entries, entry_id, row)
             /\ sqlite_sequence' = entry_id
             /\ issued' = issued \cup {entry_id}
             /\ ret' = [ op |-> "save_entry", entry_text |-> entry_text,
                         analysis |-> analysis, analyze_called |-> TRUE,
                         save_called |-> TRUE, raised |-> FALSE, value |-> entry_id,
                         connection |-> "closed" ]
        ELSE /\ \E connection \in ConnectionsAfterFailure :
                    ret' = [ op |-> "save_entry", entry_text |-> entry_text,
                             analysis |-> analysis, analyze_called |-> TRUE,
                             save_called |-> TRUE, raised |-> TRUE,
                             connection |-> connection ]
             /\ UNCHANGED <<entries, sqlite_sequence, issued>>

\* render_new_entry_page, "Submit Entry" pressed: validation, analyze_sentiment, save_entry
SubmitEntry ==
    \E sub \in Submissions :
        LET entry_text == sub.entry_text
            rejected(error) ==
                /\ ret' = [ op |-> "submit", entry_text |-> entry_text, error |-> error,
                            analyze_called |-> FALSE, save_called |-> FALSE ]
                /\ UNCHANGED <<entries, sqlite_sequence, issued>>
        IN  /\ Len(entry_text) <= MaxChars
            /\ IF entry_text = <<>> \/ Len(strip(entry_text)) = 0
               THEN rejected("empty")
               ELSE IF Len(entry_text) < MinChars
               THEN rejected("too short")
               ELSE IF Len(entry_text) > MaxChars
               THEN rejected("too long")
               ELSE /\ sqlite_sequence < MaxSaves
                    /\ \E db_ok \in BOOLEAN :
                           SaveEntry(entry_text, sub.user_selected_mood, sub.analysis, db_ok)
            /\ UNCHANGED <<now, utcOffset, pipelines, loads>>

\* DataManager.delete_entry(entry_id)
DeleteEntry ==
    \E entry_id \in Ids, db_ok \in BOOLEAN :
        /\ IF db_ok
           THEN /\ entries' = delete_where_id(entries, entry_id)
                /\ ret' = [ op |-> "delete_entry", entry_id |-> entry_id, value |-> TRUE,
                            connection |-> "closed" ]
           ELSE /\ entries' = entries
                /\ \E connection \in ConnectionsAfterFailure :
                       ret' = [ op |-> "delete_entry", entry_id |-> entry_id,
                                value |-> FALSE, connection |-> connection ]
        /\ UNCHANGED <<now, utcOffset, sqlite_sequence, issued, pipelines, loads>>

\* DataManager.get_entry_by_id(entry_id)
GetEntryById ==
    \E entry_id \in Ids :
        /\ ret' = [ op |-> "get_entry_by_id", entry_id |-> entry_id,
                    value |-> get_entry_by_id(entries, entry_id),
                    connection |-> "closed" ]
        /\ UNCHANGED <<now, utcOffset, entries, sqlite_sequence, issued, pipelines, loads>>

\* DataManager.get_all_entries()
GetAllEntries ==
    \E df \in get_all_entries(entries) :
        /\ ret' = [op |-> "get_all_entries", value |-> df, connection |-> "closed"]
        /\ UNCHANGED <<now, utcOffset, entries, sqlite_sequence, issued, pipelines, loads>>

\* DataManager.get_recent_entries(limit)
GetRecentEntries ==
    \E limit \in Limits : \E df \in get_recent_entries(entries, limit) :
        /\ ret' = [ op |-> "get_recent_entries", limit |-> limit, value |-> df,
                    connection |-> "closed" ]
        /\ UNCHANGED <<now, utcOffset, entries, sqlite_sequence, issued, pipelines, loads>>

\* DataManager.get_stats()
GetStats ==
    \E df \in get_all_entries(entries) : \E stats \in get_stats(df, now) :
        /\ ret' = [op |-> "get_stats", value |-> stats]
        /\ UNCHANGED <<now, utcOffset, entries, sqlite_sequence, issued, pipelines, loads>>

\* visualizations.get_summary_stats(dm.get_all_entries())
GetSummaryStats ==
    \E df \in get_all_entries(entries) :
        /\ ret' = [op |-> "get_summary_stats", value |-> get_summary_stats(df, now)]
        /\ UNCHANGED <<now, utcOffset, entries, sqlite_sequence, issued, pipelines, loads>>

\* render_insights_page: create_day_of_week_chart(dm.get_all_entries())
CreateDayOfWeekChart ==
    \E df \in get_all_entries(entries) :
        /\ ret' = [op |-> "create_day_of_week_chart", value |-> create_day_of_week_chart(df)]
        /\ UNCHANGED <<now, utcOffset, entries, sqlite_sequence, issued, pipelines, loads>>

\* str(list): Python's repr of a list of strings
python_str(list) ==
    LET quote(x) == IF "'" \in Range(x) /\ Quote \notin Range(x) THEN Quote ELSE "'"
        repr(x) == <<quote(x)>>
                   \o Concat([i \in 1..Len(x) |->
                                IF x[i] = Backslash \/ x[i] = quote(x)
                                THEN <<Backslash, x[i]>> ELSE <<x[i]>>])
                   \o <<quote(x)>>
    IN  <<"[">>
        \o Concat([i \in 1..Len(list) |->
                     (IF i > 1 THEN <<",", " ">> ELSE <<>>) \o repr(list[i])])
        \o <<"]">>

\* DataManager.export_to_csv(): the rows written, the lists as their str()
ExportToCsv ==
    \E df \in get_all_entries(entries) :
        /\ ret' = [ op |-> "export_to_csv",
                    value |-> [k \in 1..Len(df) |->
                                 [df[k] EXCEPT
                                    !.detected_emotions = python_str(@),
                                    !.keywords = python_str(@)]] ]
        /\ UNCHANGED <<now, utcOffset, entries, sqlite_sequence, issued, pipelines, loads>>

Next ==
    \/ Tick
    \/ SubmitEntry
    \/ DeleteEntry
    \/ GetEntryById
    \/ GetAllEntries
    \/ GetRecentEntries
    \/ GetStats
    \/ GetSummaryStats
    \/ ExportToCsv

Spec == Init /\ [][Next]_vars

-----------------------------------------------------------------------------
(* The statistics as functions of the store: every store of a bounded      *)
(* family, read at every clock value of a bounded range                    *)

RECURSIVE SubsetsUpTo(_, _)
\* the subsets of S with at most k elements
SubsetsUpTo(S, k) ==
    IF k = 0 THEN {{}}
    ELSE LET smaller == SubsetsUpTo(S, k - 1)
         IN  smaller \cup {T \cup {x} : T \in smaller, x \in S}

\* the first and the last slot of each of the dates first .. last
Times(first, last) ==
    {timedelta(d) + slot : d \in first..last, slot \in {0, SlotsPerDay - 1}}

\* the times entries are written at
EntryTimes == Times(0, StatDays - 1)

\* a few entries anywhere on the dates 0 .. StatDays-1
FewTimestamps == SubsetsUpTo(EntryTimes, MaxRows)

\* one entry a day from date 0 on for a month: the first at one time of day,
\* the later ones at another
DailyTimestamps ==
    { {timedelta(d) + (IF d = 0 THEN first ELSE later) : d \in 0..last}
        : last \in (Days30 - 1)..Days30,
          first \in 0..(SlotsPerDay - 1), later \in 0..(SlotsPerDay - 1) }

\* what analyze_sentiment returned for the entry written at time t
analysis_at(t) ==
    IF t % 3 = 0
    THEN [ label |-> "NEGATIVE", score |-> -20, confidence |-> 20,
           emotions |-> <<fear>>, keywords |-> <<>> ]
    ELSE IF t % 3 = 1
    THEN [ label |-> "POSITIVE", score |-> 80, confidence |-> 80,
           emotions |-> <<joy, fear>>, keywords |-> <<Word("a", 3)>> ]
    ELSE NeutralResult

\* the table holding one entry per timestamp, saved in the order of the timestamps
store_of(timestamps) ==
    LET id_of(t) == Cardinality({u \in timestamps : u <= t})
    IN  [i \in 1..Cardinality(timestamps) |->
            LET t == CHOOSE u \in timestamps : id_of(u) = i
            IN  new_row(t, Word("a", MinChars), NoMood, analysis_at(t))]

\* entries on the last 10 dates of a month, two of them on the last date, and one
\* entry on date 0
TenDayTimestamps ==
    { {0, timedelta(Days30 - 1) + SlotsPerDay - 1}
        \cup {timedelta(d) + slot : d \in (Days30 - 10)..(Days30 - 1)}
        : slot \in 0..(SlotsPerDay - 2) }

StatInputs ==
    {[timestamps |-> T, clock |-> c]
        : T \in FewTimestamps, c \in Times(StatDays - 1, StatDays - 1 + AheadDays)}
    \cup
    {[timestamps |-> T, clock |-> c]
        : T \in DailyTimestamps \cup TenDayTimestamps, c \in Times(Days30 - 1, Days30)}

InitStats ==
    \E input \in StatInputs :
        \* no entry is written later than the UTC clock has reached
        /\ \A t \in input.timestamps : t <= input.clock + Max(UtcOffsets)
        /\ now = input.clock
        /\ utcOffset = (IF \E t \in input.timestamps : t > input.clock
                        THEN Max(UtcOffsets) ELSE 0)
        /\ entries = store_of(input.timestamps)
        /\ sqlite_sequence = Cardinality(input.timestamps)
        /\ issued = 1..Cardinality(input.timestamps)
        /\ pipelines = NothingLoaded
        /\ loads = NoLoads
        /\ ret = [op |-> "init"]

NextStats ==
    \/ GetStats
    \/ GetSummaryStats
    \/ CreateDayOfWeekChart

SpecStats == InitStats /\ [][NextStats]_vars

-----------------------------------------------------------------------------
(* The Analyzer as a function of the text and of what its collaborators do: *)
(* every text of a bounded family, analysed by both variants               *)

\* pieces of text an entry is written from
Fragments ==
    {
      \* two tokens, two phrases of joy, a capital letter
      <<"H", "a", "p", "p", "y", " ", "j", "o", "y">>,
      \* one token twice; 'happy' of joy inside 'unhappy' of sadness
      <<"u", "n", "h", "a", "p", "p", "y", ",", " ", "u", "n", "h", "a", "p", "p", "y">>,
      \* four tokens and a stop word; stress twice, fear and surprise once
      <<"t", "i", "r", "e", "d", " ", "a", "n", "d", " ", "s", "t", "r", "e", "s", "s", "e", "d", ",", " ", "w", "o", "r", "r", "i", "e", "d", ".", " ", "W", "o", "w">>,
      \* no token: a stop word, letters next to a digit, a short word
      <<"t", "h", "e", " ", "a", "b", "c", "1", " ", "i", "s">>,
      \* hope; 'can' is a stop word, 't' is short
      <<"c", "a", "n", "'", "t", " ", "w", "a", "i", "t">>,
      \* white space
      <<" ">> }

RECURSIVE TextsOf(_)
\* the texts written from exactly k fragments, one blank between two fragments
TextsOf(k) ==
    IF k = 0 THEN {<<>>}
    ELSE IF k = 1 THEN Fragments
    ELSE {t \o <<" ">> \o f : t \in TextsOf(k - 1), f \in Fragments}

\* the empty text, white space only, and what is written from the fragments
Texts == UNION {TextsOf(k) : k \in 0..MaxFragments}
ShortTexts == TextsOf(0) \cup TextsOf(1)

Labels == {"POSITIVE", "NEGATIVE", "NEUTRAL"}

\* the polarities TextBlob returns, in hundredths: at, next to and away from the
\* thresholds
Polarities == {-100, -Threshold - 1, -Threshold, 0, Threshold, Threshold + 1}

TextBlobs == {TextBlobMissing, TextBlobRaises} \cup {TextBlobReturns(p) : p \in Polarities}

SentimentPipelines ==
    { SentimentPipelineFailed, SentimentPipelineRaises,
      SentimentPipelineReturns("POSITIVE", 99),
      SentimentPipelineReturns("NEGATIVE", NeutralZone) }

EmotionPipelines ==
    { EmotionPipelineFailed, EmotionPipelineRaises,
      EmotionPipelineReturns(<<>>),
      EmotionPipelineReturns(<< << <<fear, 10>>, <<joy, 60>>, <<disgust, 10>>,
                                   <<sadness, 20>> >> >>) }

Environment(textblob, sentiment_pipeline, emotion_pipeline) ==
    [ textblob |-> textblob, sentiment_pipeline |-> sentiment_pipeline,
      emotion_pipeline |-> emotion_pipeline ]

\* every behaviour of TextBlob when no pipeline was loaded, and every behaviour of
\* the two pipelines with TextBlob missing or returning
Environments ==
    {Environment(t, SentimentPipelineFailed, EmotionPipelineFailed) : t \in TextBlobs}
    \cup
    {Environment(t, s, e) : t \in {TextBlobMissing, TextBlobReturns(-100)},
                            s \in SentimentPipelines, e \in EmotionPipelines}

\* only TextBlob installed
UsualEnvironments ==
    { Environment(TextBlobReturns(Threshold + 1), SentimentPipelineFailed,
                  EmotionPipelineFailed) }

AnalyzerInputs ==
    {[text |-> t, env |-> e] : t \in Texts, e \in UsualEnvironments}
    \cup
    {[text |-> t, env |-> e] : t \in ShortTexts, e \in Environments}

InitAnalyzer ==
    \E input \in AnalyzerInputs :
        /\ now = FirstSlot
        /\ utcOffset = 0
        /\ entries = <<>>
        /\ sqlite_sequence = 0
        /\ issued = {}
        /\ pipelines = NothingLoaded
        /\ loads = NoLoads
        /\ ret = [op |-> "text", text |-> input.text, env |-> input.env]

\* _extract_keywords(text)
ExtractKeywords ==
    /\ ret' = [ op |-> "_extract_keywords", text |-> ret.text, env |-> ret.env,
                value |-> extract_keywords(ret.text) ]
    /\ UNCHANGED <<now, utcOffset, entries, sqlite_sequence, issued, pipelines, loads>>

\* sentiment_analyzer_lite._detect_emotions_from_keywords(text, sentiment_label)
LiteDetectEmotions ==
    \E sentiment_label \in Labels :
        /\ ret' = [ op |-> "lite._detect_emotions_from_keywords", text |-> ret.text,
                    env |-> ret.env, sentiment_label |-> sentiment_label,
                    value |-> lite_detect_emotions_from_keywords(ret.text, sentiment_label) ]
        /\ UNCHANGED <<now, utcOffset, entries, sqlite_sequence, issued, pipelines, loads>>

\* sentiment_analyzer._detect_emotions_from_keywords(text, sentiment_label)
FullDetectEmotions ==
    \E sentiment_label \in Labels :
        /\ ret' = [ op |-> "full._detect_emotions_from_keywords", text |-> ret.text,
                    env |-> ret.env, sentiment_label |-> sentiment_label,
                    value |-> full_detect_emotions_from_keywords(ret.text, sentiment_label) ]
        /\ UNCHANGED <<now, utcOffset, entries, sqlite_sequence, issued, pipelines, loads>>

\* sentiment_analyzer_lite.analyze_sentiment(text)
LiteAnalyzeSentiment ==
    /\ ret' = [ op |-> "lite.analyze_sentiment", text |-> ret.text, env |-> ret.env,
                call |-> lite_analyze_sentiment(ret.text, ret.env.textblob) ]
    /\ UNCHANGED <<now, utcOffset, entries, sqlite_sequence, issued, pipelines, loads>>

\* sentiment_analyzer.analyze_sentiment(text): both loaders are called, and a
\* model that was loaded is called
FullAnalyzeSentiment ==
    LET sentiment == load_sentiment_model(pipelines.sentiment, ret.env.sentiment_pipeline)
        emotion == load_emotion_model(pipelines.emotion, ret.env.emotion_pipeline)
        sentiment_pipeline == IF sentiment.cached = "failed" THEN SentimentPipelineFailed
                              ELSE ret.env.sentiment_pipeline
        emotion_pipeline == IF emotion.cached = "failed" THEN EmotionPipelineFailed
                            ELSE ret.env.emotion_pipeline
    IN  /\ pipelines' = [sentiment |-> sentiment.cached, emotion |-> emotion.cached]
        /\ loads' = [ sentiment |-> loads.sentiment + sentiment.constructs,
                      emotion |-> loads.emotion + emotion.constructs ]
        /\ ret' = [ op |-> "full.analyze_sentiment", text |-> ret.text, env |-> ret.env,
                    constructs |-> sentiment.constructs,
                    call |-> full_analyze_sentiment(ret.text, sentiment_pipeline,
                                                    ret.env.textblob, emotion_pipeline) ]
        /\ UNCHANGED <<now, utcOffset, entries, sqlite_sequence, issued>>

NextAnalyzer ==
    \/ ExtractKeywords
    \/ LiteDetectEmotions
    \/ FullDetectEmotions
    \/ LiteAnalyzeSentiment
    \/ FullAnalyzeSentiment

SpecAnalyzer == InitAnalyzer /\ [][NextAnalyzer]_vars

-----------------------------------------------------------------------------
(* Properties *)

\* the calendar dates holding at least one entry
EntryDateSet == {DateOf(entries[i].timestamp) : i \in DOMAIN entries}

Today == DateOf(now)

\* the length of the maximal run of consecutive dates of D that ends at d
RunEndingAt(D, d) ==
    CHOOSE k \in 0..Cardinality(D) :
        /\ \A j \in 0..(k - 1) : (d - j) \in D
        /\ (d - k) \notin D

\* the maximum length of a run of consecutive dates of D
LongestRun(D) == Max({RunEndingAt(D, d) : d \in D} \cup {0})

\* C1: when the most recent entry date is today or yesterday, the current_streak of
\* get_stats is the length of the maximal run of consecutive entry dates ending at
\* that most recent date.
C1_CurrentStreakIsRunEndingAtLatest ==
    (/\ ret.op = "get_stats"
     /\ DOMAIN entries # {}
     /\ Max(EntryDateSet) \in {Today, Today - 1})
    => ret.value.current_streak = RunEndingAt(EntryDateSet, Max(EntryDateSet))

\* entries on {today, today-1, today-2, today-5} give current_streak = 3
C1_Witness ==
    /\ ret.op = "get_stats"
    /\ EntryDateSet = {Today, Today - 1, Today - 2, Today - 5}
    /\ ret.value.current_streak = 3

\* C2: when the store is empty or its most recent entry date is more than one day
\* before today, current_streak is 0 in get_stats and in get_summary_stats.
C2_StaleStreakIsZero ==
    (/\ ret.op \in {"get_stats", "get_summary_stats"}
     /\ (DOMAIN entries = {} \/ Max(EntryDateSet) < Today - 1))
    => ret.value.current_streak = 0

\* a past run of three consecutive dates that ended two days ago
C2_Witness ==
    /\ ret.op = "get_stats"
    /\ EntryDateSet = {Today - 2, Today - 3, Today - 4}
    /\ ret.value.current_streak = 0

\* C3: for a non-empty store, the longest_streak of get_stats is the maximum length
\* of a run of consecutive entry dates over the whole history.
C3_LongestStreakIsLongestRun ==
    (ret.op = "get_stats" /\ DOMAIN entries # {})
    => ret.value.longest_streak = LongestRun(EntryDateSet)

\* entries on {today-5, today-6, today-7} give longest_streak = 3, current_streak = 0
C3_Witness ==
    /\ ret.op = "get_stats"
    /\ EntryDateSet = {Today - 5, Today - 6, Today - 7}
    /\ ret.value.longest_streak = 3
    /\ ret.value.current_streak = 0

\* a further entry, as save_entry stores it
FurtherEntry == new_row(0, Word("a", MinChars), NoMood, NeutralResult)

\* the store with one more entry, written at time t
WithEntryAt(t) ==
    insert(entries, autoincrement(entries, sqlite_sequence),
           [FurtherEntry EXCEPT !.timestamp = t])

\* times on the dates that already hold an entry
TimesOnEntryDates ==
    UNION {Times(d, d) : d \in EntryDateSet}

\* C4: one more entry on a date that already holds an entry leaves current_streak
\* and longest_streak of get_stats, and the current_streak of get_summary_stats,
\* as they were.
C4_StreaksCountADateOnce ==
    /\ ret.op = "get_stats" =>
          \A t \in TimesOnEntryDates : \A df \in get_all_entries(WithEntryAt(t)) :
              LET streaks == calculate_streaks(df, Today)
              IN  /\ streaks.current_streak = ret.value.current_streak
                  /\ streaks.longest_streak = ret.value.longest_streak
    /\ ret.op = "get_summary_stats" =>
          \A t \in TimesOnEntryDates : \A df \in get_all_entries(WithEntryAt(t)) :
              calculate_current_streak(df, Today) = ret.value.current_streak

\* a date holds two entries and lies inside a current streak of several days
C4_Witness ==
    /\ ret.op = "get_stats"
    /\ ret.value.current_streak >= 2
    /\ \E i, j \in DOMAIN entries :
          /\ i # j
          /\ DateOf(entries[i].timestamp) = DateOf(entries[j].timestamp)
          /\ DateOf(entries[i].timestamp) = Today

\* C5: with no entry later than now, the consistency_30d of get_stats is at most 100.
C5_ConsistencyAtMost100 ==
    (/\ ret.op = "get_stats"
     /\ \A i \in DOMAIN entries : entries[i].timestamp <= now)
    => FracLeq(ret.value.consistency_30d, Fraction(Percent, 1))

\* C6: delete_entry of an id that is not in the store returns False and leaves the
\* store as it was.
C6_DeleteMissingReturnsFalse ==
    [][(DeleteEntry /\ ret'.op = "delete_entry" /\ ret'.entry_id \notin DOMAIN entries)
       => (ret'.value = FALSE /\ entries' = entries)]_vars

\* C7: a submission whose text is shorter than 20 characters after trimming is
\* rejected: analyze_sentiment and save_entry are not called, the store is unchanged.
C7_ShortTrimmedTextRejected ==
    [][(SubmitEntry /\ Len(strip(ret'.entry_text)) < MinChars)
       => (/\ ~ret'.analyze_called
           /\ ~ret'.save_called
           /\ entries' = entries)]_vars

\* C8: every id save_entry returns is greater than every id it returned before,
\* whatever was deleted in between.
C8_IdsStrictlyIncrease ==
    [][(entries' # entries /\ ret'.op = "save_entry")
       => (/\ ret'.value \in DOMAIN entries'
           /\ ret'.value \notin issued
           /\ issued' = issued \cup {ret'.value}
           /\ \A i \in issued : ret'.value > i)]_vars

\* save_entry returned after every earlier entry, the one with the largest id
\* included, had been deleted
C8_Witness ==
    /\ ret.op = "save_entry"
    /\ ~ret.raised
    /\ ret.value > 1
    /\ DOMAIN entries = {ret.value}

\* C9: get_entry_by_id(save_entry(...)) returns the text, label, score, emotions and
\* keywords that were saved, the lists in their order, an empty list as an empty list.
C9_SaveThenReadRoundTrip ==
    (ret.op = "save_entry" /\ ~ret.raised)
    => LET entry == get_entry_by_id(entries, ret.value)
       IN  /\ entry # None
           /\ entry.entry_text = ret.entry_text
           /\ entry.ai_sentiment_label = ret.analysis.label
           /\ entry.ai_sentiment_score = ret.analysis.score
           /\ entry.detected_emotions = ret.analysis.emotions
           /\ entry.keywords = ret.analysis.keywords

\* an entry with three emotions and five keywords was just saved, beside an entry
\* saved with no keyword
C9_Witness ==
    /\ ret.op = "save_entry"
    /\ ~ret.raised
    /\ Len(ret.analysis.emotions) = 3
    /\ Len(ret.analysis.keywords) = 5
    /\ \E id \in DOMAIN entries :
          /\ entries[id].keywords = None
          /\ get_entry_by_id(entries, id).keywords = <<>>

\* C10: no operation changes what get_entry_by_id returns for an entry that stays in
\* the store, and an entry leaves the store only in a delete_entry of its own id.
C10_EntriesNeverMutated ==
    [][\/ entries' = entries
       \/ /\ \A id \in DOMAIN entries \cap DOMAIN entries' :
                get_entry_by_id(entries', id) = get_entry_by_id(entries, id)
          /\ \A id \in DOMAIN entries \ DOMAIN entries' :
                ret'.op = "delete_entry" /\ ret'.entry_id = id]_vars

\* delete_entry removed one entry and another one is still stored
C10_Witness ==
    /\ ret.op = "delete_entry"
    /\ ret.value = TRUE
    /\ ret.entry_id \in issued
    /\ ret.entry_id \notin DOMAIN entries
    /\ DOMAIN entries # {}

-----------------------------------------------------------------------------
(* Properties of the Analyzer *)

AnalyzeOps == {"lite.analyze_sentiment", "full.analyze_sentiment"}

\* no scorer of the variant that ran returned a score: TextBlob for the lite
\* variant, the sentiment pipeline and TextBlob for the heavier one
NoScore ==
    /\ ret.env.textblob.outcome # "returns"
    /\ ret.op = "full.analyze_sentiment" => ret.env.sentiment_pipeline.outcome # "returns"

\* C11: analyze_sentiment of either variant raises nothing and returns a result with
\* exactly the fields label, score, confidence, emotions, keywords, for every text (the
\* empty and the white-space-only text included) and whatever TextBlob and the
\* pipelines do; when no scorer returned a score (it is missing or it raised) the
\* result has label NEUTRAL, score 0.0 and confidence 0.0.
C11_AnalyzerNeverFails ==
    ret.op \in AnalyzeOps
    => /\ ~ret.call.raised
       /\ DOMAIN ret.call.value = {"label", "score", "confidence", "emotions", "keywords"}
       /\ ret.call.value.label \in Labels
       /\ NoScore => /\ ret.call.value.label = "NEUTRAL"
                     /\ ret.call.value.score = 0
                     /\ ret.call.value.confidence = 0

\* the lite variant analysed a white-space-only text while TextBlob raised
C11_Witness ==
    /\ ret.op = "lite.analyze_sentiment"
    /\ ret.text = <<" ">>
    /\ ret.env.textblob.outcome = "Exception"
    /\ ~ret.call.raised

\* C12: in sentiment_analyzer_lite.analyze_sentiment the label is POSITIVE iff
\* score > 0.1, NEGATIVE iff score < -0.1 and NEUTRAL otherwise; 0.1 and -0.1 are
\* NEUTRAL.
C12_LabelFollowsThresholds ==
    ret.op = "lite.analyze_sentiment"
    => LET result == ret.call.value
       IN  /\ result.label = "POSITIVE" <=> result.score > 10
           /\ result.label = "NEGATIVE" <=> result.score < -10
           /\ result.label = "NEUTRAL" <=> (-10 <= result.score /\ result.score <= 10)

\* TextBlob returned exactly -0.1 and the lite variant labelled it NEUTRAL
C12_Witness ==
    /\ ret.op = "lite.analyze_sentiment"
    /\ ret.env.textblob.outcome = "returns"
    /\ ret.call.value.score = -10
    /\ ret.call.value.label = "NEUTRAL"

\* C13: in every result of analyze_sentiment, of either variant and on every path,
\* confidence is the absolute value of score, and so lies in [0.0, 1.0].
C13_ConfidenceIsAbsScore ==
    ret.op \in AnalyzeOps
    => LET result == ret.call.value
       IN  /\ result.confidence = (IF result.score < 0 THEN -result.score ELSE result.score)
           /\ 0 <= result.confidence /\ result.confidence <= 100

\* C14: the emotions of every result of analyze_sentiment, of either variant and on
\* every path, hold at least 1 and at most 3 tags.
C14_OneToThreeEmotions ==
    ret.op \in AnalyzeOps
    => /\ Len(ret.call.value.emotions) >= 1
       /\ Len(ret.call.value.emotions) <= 3

\* the heavier variant returned three of the four labels of the emotion pipeline
C14_Witness ==
    /\ ret.op = "full.analyze_sentiment"
    /\ ret.env.emotion_pipeline.outcome = "returns"
    /\ ret.env.emotion_pipeline.results # <<>>
    /\ Len(ret.env.emotion_pipeline.results[1]) > 3
    /\ ret.call.value.emotions = <<joy, sadness, fear>>

\* phrase p occurs in text t as a substring
Occurs(p, t) ==
    \E i \in 1..(Len(t) - Len(p) + 1) : \A j \in 1..Len(p) : t[i + j - 1] = p[j]

\* for each entry of an emotion table, how many of its distinct phrases occur in the
\* lower-cased text
PhraseCounts(table, text) ==
    LET t == lower(text)
    IN  [i \in DOMAIN table |-> Cardinality({p \in Range(table[i].keywords) : Occurs(p, t)})]

\* the entries of an emotion table of which some phrase occurs in the lower-cased text
Matched(table, text) == {i \in DOMAIN table : PhraseCounts(table, text)[i] > 0}

\* C15: when some emotion phrase occurs in the lower-cased text, the lite
\* _detect_emotions_from_keywords returns the emotions with a phrase in the text, by
\* descending number of distinct phrases in the text, equal numbers in the order of
\* declaration (joy, sadness, anger, fear, surprise, gratitude, hope, stress), cut to
\* the first 3.
C15_EmotionsRankedByCount ==
    ret.op = "lite._detect_emotions_from_keywords"
    => LET n == PhraseCounts(lite_emotion_keywords, ret.text)
           matched == {i \in DOMAIN n : n[i] > 0}
           place == [i \in matched |->
                       1 + Cardinality({j \in matched :
                                          n[j] > n[i] \/ (n[j] = n[i] /\ j < i)})]
       IN  matched # {}
           => /\ Len(ret.value) = Cardinality({i \in matched : place[i] <= 3})
              /\ \A i \in matched :
                    place[i] <= 3 => ret.value[place[i]] = lite_emotion_keywords[i].emotion

\* five emotions match; stress, declared last, has two phrases in the text and comes
\* first, then the first two declared of those with one phrase
C15_Witness ==
    /\ ret.op = "lite._detect_emotions_from_keywords"
    /\ Cardinality(Matched(lite_emotion_keywords, ret.text)) = 5
    /\ ret.value = <<stress, joy, sadness>>

\* C16: when no emotion phrase occurs in the lower-cased text, emotion detection
\* (of either variant) returns exactly one tag: joy for POSITIVE, sadness for
\* NEGATIVE, neutral otherwise.
C16_NoMatchInfersFromLabel ==
    /\ (ret.op = "lite._detect_emotions_from_keywords"
            /\ Matched(lite_emotion_keywords, ret.text) = {})
       => ret.value = (IF ret.sentiment_label = "POSITIVE" THEN <<joy>>
                       ELSE IF ret.sentiment_label = "NEGATIVE" THEN <<sadness>>
                       ELSE <<neutral>>)
    /\ (ret.op = "full._detect_emotions_from_keywords"
            /\ Matched(full_emotion_keywords, ret.text) = {})
       => ret.value = (IF ret.sentiment_label = "POSITIVE" THEN <<joy>>
                       ELSE IF ret.sentiment_label = "NEGATIVE" THEN <<sadness>>
                       ELSE <<neutral>>)

\* a text of words without any emotion phrase, labelled NEGATIVE
C16_Witness ==
    /\ ret.op = "lite._detect_emotions_from_keywords"
    /\ ret.text = <<"t", "h", "e", " ", "a", "b", "c", "1", " ", "i", "s">>
    /\ ret.sentiment_label = "NEGATIVE"
    /\ ret.value = <<sadness>>

\* the tokens of a lower-cased text: each maximal run of letters, digits and
\* underscores, by the position it starts at
Tokens(t) ==
    LET starts == {i \in 1..Len(t) :
                      t[i] \in word_chars /\ (i = 1 \/ t[i - 1] \notin word_chars)}
        last(i) == CHOOSE k \in i..Len(t) :
                      /\ k = Len(t) \/ t[k + 1] \notin word_chars
                      /\ \A j \in i..k : t[j] \in word_chars
    IN  [i \in starts |-> SubSeq(t, i, last(i))]

\* a token that qualifies as a keyword: alphabetic, 3 letters or more, not a stop word
IsKeyword(w) ==
    /\ Len(w) >= 3
    /\ \A j \in 1..Len(w) : w[j] \in a_z
    /\ w \notin stop_words

\* C17: _extract_keywords returns the distinct lower-cased alphabetic tokens of 3
\* letters or more that are not stop words, by descending frequency, equal frequencies
\* by first occurrence in the text, cut to 5; no duplicates, and the empty list when no
\* token qualifies.
C17_KeywordsByFrequency ==
    ret.op = "_extract_keywords"
    => LET token == Tokens(lower(ret.text))
           starts == {i \in DOMAIN token : IsKeyword(token[i])}
           words == {token[i] : i \in starts}
           frequency == [w \in words |-> Cardinality({i \in starts : token[i] = w})]
           first == [w \in words |->
                       CHOOSE i \in starts :
                           token[i] = w /\ \A j \in starts : token[j] = w => i <= j]
           place == [w \in words |->
                       1 + Cardinality({v \in words :
                              \/ frequency[v] > frequency[w]
                              \/ frequency[v] = frequency[w] /\ first[v] < first[w]})]
       IN  /\ Len(ret.value) = Cardinality({w \in words : place[w] <= 5})
           /\ \A w \in words : place[w] <= 5 => ret.value[place[w]] = w

\* a text with capital letters in which the word written last is the most frequent
C17_Witness ==
    /\ ret.op = "_extract_keywords"
    /\ ret.text = <<"H", "a", "p", "p", "y", " ", "j", "o", "y", " ", "u", "n", "h", "a", "p", "p", "y", ",", " ", "u", "n", "h", "a", "p", "p", "y">>
    /\ ret.value = <<<<"u", "n", "h", "a", "p", "p", "y">>, <<"h", "a", "p", "p", "y">>, <<"j", "o", "y">>>>

-----------------------------------------------------------------------------
(* Properties of the statistics: averages, consistency, top emotion *)

\* the entries with timestamp >= now - n days
InLast(n) == {i \in DOMAIN entries : entries[i].timestamp >= now - n * SlotsPerDay}

RECURSIVE ScoreSum(_)
\* the sum of the sentiment scores of a set of entries
ScoreSum(S) ==
    IF S = {} THEN 0
    ELSE LET i == CHOOSE j \in S : TRUE
         IN  entries[i].ai_sentiment_score + ScoreSum(S \ {i})

\* the arithmetic mean of the sentiment scores of a set of entries, 0 for no entry
MeanScore(S) == IF S = {} THEN Fraction(0, 1) ELSE Fraction(ScoreSum(S), Cardinality(S))

\* C18: avg_mood_7d and avg_mood_30d of get_stats are the arithmetic mean of
\* sentiment_score over exactly the entries with timestamp >= now - 7 days and
\* >= now - 30 days, and 0 when no entry is in the range.
C18_RollingAverages ==
    ret.op = "get_stats"
    => /\ FracEq(ret.value.avg_mood_7d, MeanScore(InLast(7)))
       /\ FracEq(ret.value.avg_mood_30d, MeanScore(InLast(30)))

\* of three entries the two within 7 days have the scores 0.8 and -0.2, one of them
\* written exactly 7 days ago, and avg_mood_7d is 0.3
C18_Witness ==
    /\ ret.op = "get_stats"
    /\ Cardinality(DOMAIN entries) = 3
    /\ Cardinality(InLast(7)) = 2
    /\ {entries[i].ai_sentiment_score : i \in InLast(7)} = {80, -20}
    /\ \E i \in InLast(7) : entries[i].timestamp = now - 7 * SlotsPerDay
    /\ FracEq(ret.value.avg_mood_7d, Fraction(30, 1))

\* C19: consistency_30d of get_stats is (the number of distinct calendar dates
\* holding an entry with timestamp >= now - 30 days) / 30 * 100; 0 for an empty store.
C19_ConsistencyIsDatesOver30 ==
    ret.op = "get_stats"
    => FracEq(ret.value.consistency_30d,
              Fraction(Cardinality({DateOf(entries[i].timestamp) : i \in InLast(30)}) * 100,
                       30))

\* entries on exactly 10 distinct dates of the window, two of them on one date, an
\* older entry outside the window: consistency_30d is 33.33...
C19_Witness ==
    /\ ret.op = "get_stats"
    /\ Cardinality({DateOf(entries[i].timestamp) : i \in InLast(30)}) = 10
    /\ Cardinality(InLast(30)) > 10
    /\ DOMAIN entries # InLast(30)
    /\ FracEq(ret.value.consistency_30d, Fraction(100, 3))

\* the emotions of every stored entry, as get_entry_by_id returns them
StoredEmotions == [i \in DOMAIN entries |-> get_entry_by_id(entries, i).detected_emotions]

\* the tags stored, and how often each occurs over all entries
StoredTags == UNION {Range(StoredEmotions[i]) : i \in DOMAIN entries}
Occurrences(x) ==
    Cardinality({p \in UNION {{<<i, k>> : k \in DOMAIN StoredEmotions[i]} : i \in DOMAIN entries} :
                    StoredEmotions[p[1]][p[2]] = x})

\* C20: most_common_emotion of get_stats and top_emotion of get_summary_stats are a
\* tag of maximal total occurrence count over the emotions of all entries; with no
\* emotion in any entry they are None and 'None'.
C20_TopEmotionHasMaximalCount ==
    /\ ret.op = "get_stats"
       => IF StoredTags = {} THEN ret.value.most_common_emotion = None
          ELSE /\ ~ret.value.most_common_emotion.isNone
               /\ ret.value.most_common_emotion.value \in StoredTags
               /\ \A y \in StoredTags :
                     Occurrences(y) <= Occurrences(ret.value.most_common_emotion.value)
    /\ ret.op = "get_summary_stats"
       => IF StoredTags = {} THEN ret.value.top_emotion = <<"N", "o", "n", "e">>
          ELSE /\ ret.value.top_emotion \in StoredTags
               /\ \A y \in StoredTags : Occurrences(y) <= Occurrences(ret.value.top_emotion)

\* three tags are stored, two of them equally often and more often than the third,
\* and get_stats returned one of the two
C20_Witness ==
    /\ ret.op = "get_stats"
    /\ Cardinality(StoredTags) = 3
    /\ \E y \in StoredTags :
          Occurrences(y) < Occurrences(ret.value.most_common_emotion.value)
    /\ \E y \in StoredTags :
          /\ y # ret.value.most_common_emotion.value
          /\ Occurrences(y) = Occurrences(ret.value.most_common_emotion.value)

-----------------------------------------------------------------------------
(* Properties of the reads of the store *)

\* the rows of a DataFrame are rows of the table, each id at most once
RowsOfStore(df) ==
    /\ \A k \in 1..Len(df) :
          df[k].id \in DOMAIN entries /\ df[k] = parsed_row(entries, df[k].id)
    /\ \A k, l \in 1..Len(df) : df[k].id = df[l].id => k = l

\* the timestamps of a DataFrame never increase from one row to the next
NewestFirst(df) ==
    \A k \in 1..(Len(df) - 1) : df[k].timestamp >= df[k + 1].timestamp

\* C21: whatever was saved and deleted before, get_all_entries returns every
\* stored entry exactly once, and no row has a later timestamp than the row
\* before it.
C21_AllEntriesOnceNewestFirst ==
    ret.op = "get_all_entries" =>
        /\ RowsOfStore(ret.value)
        /\ {ret.value[k].id : k \in 1..Len(ret.value)} = DOMAIN entries
        /\ Len(ret.value) = Cardinality(DOMAIN entries)
        /\ NewestFirst(ret.value)

\* an entry was saved, then a later one, and both were read back
C21_Witness ==
    /\ ret.op = "get_all_entries"
    /\ Len(ret.value) = 2
    /\ ret.value[1].timestamp > ret.value[2].timestamp

\* the number of rows get_recent_entries(limit) is to return
Expected(limit) ==
    LET total == Cardinality(DOMAIN entries)
    IN  IF limit < total THEN limit ELSE total

\* no two stored entries share a timestamp
DistinctTimestamps ==
    \A i, j \in DOMAIN entries : i # j => entries[i].timestamp # entries[j].timestamp

-----------------------------------------------------------------------------
(* Properties of the model cache *)

\* C23: whatever the calls of analyze_sentiment, the sentiment model is
\* constructed at most once, and once _sentiment_pipeline holds the outcome of
\* that attempt (the pipeline, or "failed") no call changes it or constructs
\* the model again.
C23_AtMostOneLoad ==
    [][ /\ loads'.sentiment <= 1
        /\ pipelines.sentiment # "None" =>
              /\ pipelines'.sentiment = pipelines.sentiment
              /\ loads'.sentiment = loads.sentiment ]_vars

\* a call of analyze_sentiment after the one whose attempt to load failed
C23_Witness ==
    /\ ret.op = "full.analyze_sentiment"
    /\ ret.constructs = 0
    /\ pipelines.sentiment = "failed"
    /\ loads.sentiment = 1

-----------------------------------------------------------------------------
(* Properties of the connections *)

StoreOps ==
    {"save_entry", "get_all_entries", "get_recent_entries", "get_entry_by_id",
     "delete_entry"}

\* C24: when an operation of the store has returned or raised, the connection
\* it opened has been closed by it.
C24_ConnectionClosed ==
    ret.op \in StoreOps => ret.connection # "open"

-----------------------------------------------------------------------------
(* Properties of the day-of-week summary *)

\* the entries whose timestamp falls on the k-th weekday, Monday being the first
OnWeekday(k) ==
    {i \in DOMAIN entries : DateOf(entries[i].timestamp) % 7 = k - 1}

\* C25: for a non-empty store the chart has the 7 bars Monday to Sunday; the bar
\* of a weekday that has entries holds the mean sentiment score of exactly those
\* entries, and the bar of a weekday without entries holds NaN, not 0.
C25_WeekdayMeansOrNoData ==
    (ret.op = "create_day_of_week_chart" /\ DOMAIN entries # {}) =>
        /\ ret.value.x = <<"Monday", "Tuesday", "Wednesday", "Thursday", "Friday",
                           "Saturday", "Sunday">>
        /\ DOMAIN ret.value.y = 1..7
        /\ \A k \in 1..7 :
              IF OnWeekday(k) = {}
              THEN ret.value.y[k] = NaN /\ ret.value.y[k] # Fraction(0, 1)
              ELSE /\ ret.value.y[k] # NaN
                   /\ FracEq(ret.value.y[k],
                             Fraction(ScoreSum(OnWeekday(k)), Cardinality(OnWeekday(k))))

\* a weekday with two entries of different scores, a weekday whose scores are 0,
\* and a weekday without entries
C25_Witness ==
    /\ ret.op = "create_day_of_week_chart"
    /\ \E k \in 1..7 :
          /\ Cardinality(OnWeekday(k)) = 2
          /\ \E i, j \in OnWeekday(k) :
                entries[i].ai_sentiment_score # entries[j].ai_sentiment_score
    /\ \E k \in 1..7 : OnWeekday(k) # {} /\ ret.value.y[k] = Fraction(0, 1)
    /\ \E k \in 1..7 : OnWeekday(k) = {} /\ ret.value.y[k] = NaN

-----------------------------------------------------------------------------
(* Properties of the two variants of the Analyzer *)

RankedEmotions(table, text) ==
    LET n == PhraseCounts(table, text)
        matched == {i \in DOMAIN n : n[i] > 0}
        place == [i \in matched |->
                    1 + Cardinality({j \in matched :
                                       n[j] > n[i] \/ (n[j] = n[i] /\ j < i)})]
    IN  [k \in 1..Cardinality({i \in matched : place[i] <= 3}) |->
            table[CHOOSE i \in matched : place[i] = k].emotion]

\* C27: for a text in which some emotion phrase occurs, the lite analyze_sentiment
\* returns the emotions ranked by their phrases in the text, whether TextBlob
\* returns, is missing or raises.
C27_KeywordEmotionsOnEveryPath ==
    (ret.op = "lite.analyze_sentiment" /\ Matched(lite_emotion_keywords, ret.text) # {})
    => ret.call.value.emotions = RankedEmotions(lite_emotion_keywords, ret.text)

-----------------------------------------------------------------------------
(* Properties of the streaks across the two clocks and the two implementations *)

\* C28: when get_stats is called right after a save_entry that succeeded, it
\* reports a current_streak of at least 1, whatever the offset between
\* CURRENT_TIMESTAMP and the local wall clock.
C28_SavedEntryCountsToday ==
    [][ (ret.op = "save_entry" /\ ~ret.raised /\ ret'.op = "get_stats")
            => ret'.value.current_streak >= 1 ]_vars

\* C29: for the same store and the same today, the current streak of
\* DataManager._calculate_streaks (get_stats, Insights page) equals the one of
\* visualizations.calculate_current_streak (get_summary_stats, Dashboard).
C29_CurrentStreaksAgree ==
    /\ ret.op = "get_stats" =>
          \A df \in get_all_entries(entries) :
              ret.value.current_streak = calculate_current_streak(df, Today)
    /\ ret.op = "get_summary_stats" =>
          \A df \in get_all_entries(entries) :
              ret.value.current_streak = calculate_streaks(df, Today).current_streak

\* the Dashboard's streak of a store whose latest entry is of yesterday and ends a
\* run of two dates
C29_Witness ==
    /\ ret.op = "get_summary_stats"
    /\ Max(EntryDateSet \cup {0}) = Today - 1
    /\ Today - 2 \in EntryDateSet
    /\ Today - 3 \notin EntryDateSet
    /\ ret.value.current_streak = 2

\* C30: in every result of get_stats, 0 <= current_streak <= longest_streak <=
\* the number of distinct entry dates, and longest_streak >= 1 when the store is
\* not empty.
C30_StreaksOrdered ==
    ret.op = "get_stats" =>
        /\ 0 <= ret.value.current_streak
        /\ ret.value.current_streak <= ret.value.longest_streak
        /\ ret.value.longest_streak <= Cardinality(EntryDateSet)
        /\ DOMAIN entries # {} => ret.value.longest_streak >= 1

\* today alone after a gap, a run of three dates before it: 1 < 3 < 4
C30_Witness ==
    /\ ret.op = "get_stats"
    /\ EntryDateSet = {Today, Today - 2, Today - 3, Today - 4}
    /\ ret.value.current_streak = 1
    /\ ret.value.longest_streak = 3

====
